---- MODULE Spec2Model ----
(***************************************************************************)
(* Model of sparse_matrix/matrix.py: a sparse matrix kept as a singly      *)
(* linked chain of Node objects ordered by (row, col), with set_element,   *)
(* get_element, add, subtract, multiply, load_matrix and save_to_file.     *)
(*                                                                         *)
(* Objects live in two stores: `nodes` (the Node objects, a node's         *)
(* reference is its index) and `mats` (the SparseMatrix objects).  The     *)
(* reference None is 0.  Python integers are unbounded, so values are      *)
(* plain integers.                                                         *)
(***************************************************************************)
EXTENDS Integers, Sequences, FiniteSets, TLC

\* ---- bounds of the exploration ----
MaxDim == 2        \* num_rows / num_cols range over 1..MaxDim
MaxVal == 1        \* value arguments range over -MaxVal..MaxVal
MaxEntries == 2    \* nodes stored per operand matrix, lines per loaded file

None == 0

Dims == 1..MaxDim
Values == (0 - MaxVal)..MaxVal
Operands == {1, 2}     \* matrix1 and matrix2 of main()

VARIABLES
    nodes,     \* store of Node objects: Seq of [row, col, value, next]
    mats,      \* store of SparseMatrix objects: Seq of [head, num_rows, num_cols]
    result,    \* main()'s `result` variable: a reference into mats, or None
    op,        \* the arithmetic call made: [name, self, other]
    raised,    \* TRUE iff that call raised ValueError
    file,      \* what save_to_file wrote: [written, rows, cols, lines]
    pc         \* position of the driver: "build", "computed", "saved"

vars == <<nodes, mats, result, op, raised, file, pc>>

\* ---- objects ----

\* Node.__init__
Node(row, col, value) ==
    [row |-> row, col |-> col, value |-> value, next |-> None]

\* SparseMatrix.__init__ without a file path
SparseMatrix(num_rows, num_cols) ==
    [head |-> None, num_rows |-> num_rows, num_cols |-> num_cols]

\* The object store handed from statement to statement.
Store(ns, ms) == [nodes |-> ns, mats |-> ms]

\* ---- set_element ----

\* The loop condition of the ordered scan (line 93, without `current and`).
Before_rowonly(n, row, col) ==
    n.row < row

Before_orequal(n, row, col) ==
    n.row < row \/ (n.row = row /\ n.col <= col)

Before(n, row, col) ==
    n.row < row \/ (n.row = row /\ n.col < col)

\* The while loop of set_element: <<prev, current>> when it exits.
RECURSIVE ScanInsert(_, _, _, _, _)
ScanInsert(ns, prev, current, row, col) ==
    IF current # None /\ Before(ns[current], row, col)
    THEN ScanInsert(ns, current, ns[current].next, row, col)
    ELSE <<prev, current>>

set_element(st, self, row, col, value) ==
    IF value = 0 THEN st
    ELSE
      LET new_node == Len(st.nodes) + 1
          ns1 == Append(st.nodes, Node(row, col, value))
      IN IF st.mats[self].head = None
         THEN Store(ns1, [st.mats EXCEPT ![self].head = new_node])
         ELSE
           LET pos == ScanInsert(ns1, None, st.mats[self].head, row, col)
               prev == pos[1]
               current == pos[2]
               ns2 == IF prev # None
                      THEN [ns1 EXCEPT ![prev].next = new_node]
                      ELSE ns1
               ms2 == IF prev # None
                      THEN st.mats
                      ELSE [st.mats EXCEPT ![self].head = new_node]
           IN Store([ns2 EXCEPT ![new_node].next = current], ms2)

\* ---- get_element ----

RECURSIVE GetScan(_, _, _, _)
GetScan(ns, current, row, col) ==
    IF current = None THEN 0
    ELSE IF ns[current].row = row /\ ns[current].col = col
         THEN ns[current].value
         ELSE GetScan(ns, ns[current].next, row, col)

get_element(st, self, row, col) ==
    GetScan(st.nodes, st.mats[self].head, row, col)

\* ---- enumeration of a chain, head to tail ----

RECURSIVE Chain(_, _)
Chain(ns, current) ==
    IF current = None THEN <<>>
    ELSE <<current>> \o Chain(ns, ns[current].next)

\* ---- add ----

\* An arithmetic call ends by returning a new matrix or by raising.
Returned(st, r) == [st |-> st, result |-> r, raised |-> FALSE]
Raised(st) == [st |-> st, result |-> None, raised |-> TRUE]

\* result = SparseMatrix(num_rows=..., num_cols=...)
NewMatrix(st, num_rows, num_cols) ==
    Store(st.nodes, Append(st.mats, SparseMatrix(num_rows, num_cols)))

\* First loop of add and of subtract: copy the entries of self.
RECURSIVE CopyLoop(_, _, _)
CopyLoop(st, r, current) ==
    IF current = None THEN st
    ELSE LET n == st.nodes[current]
             st1 == set_element(st, r, n.row, n.col, n.value)
         IN CopyLoop(st1, r, st1.nodes[current].next)

\* Second loop of add: combine the entries of other.
RECURSIVE AddLoop(_, _, _)
AddLoop(st, r, current) ==
    IF current = None THEN st
    ELSE LET n == st.nodes[current]
             value == get_element(st, r, n.row, n.col)
             st1 == set_element(st, r, n.row, n.col, value + n.value)
         IN AddLoop(st1, r, st1.nodes[current].next)

AddMismatch_and(a, b) ==
    a.num_rows # b.num_rows /\ a.num_cols # b.num_cols

\* The dimension test of add and of subtract.
AddMismatch(a, b) ==
    a.num_rows # b.num_rows \/ a.num_cols # b.num_cols

add_shared(st, self, other) ==
    IF AddMismatch(st.mats[self], st.mats[other]) THEN Raised(st)
    ELSE
      LET r == Len(st.mats) + 1
          st0 == NewMatrix(st, st.mats[self].num_rows, st.mats[self].num_cols)
          st1 == Store(st0.nodes, [st0.mats EXCEPT ![r].head = st0.mats[self].head])
          st2 == AddLoop(st1, r, st1.mats[other].head)
      IN Returned(st2, r)

add(st, self, other) ==
    IF AddMismatch(st.mats[self], st.mats[other]) THEN Raised(st)
    ELSE
      LET r == Len(st.mats) + 1
          st0 == NewMatrix(st, st.mats[self].num_rows, st.mats[self].num_cols)
          st1 == CopyLoop(st0, r, st0.mats[self].head)
          st2 == AddLoop(st1, r, st1.mats[other].head)
      IN Returned(st2, r)

\* ---- subtract ----

RECURSIVE SubtractLoop(_, _, _)
SubtractLoop(st, r, current) ==
    IF current = None THEN st
    ELSE LET n == st.nodes[current]
             value == get_element(st, r, n.row, n.col)
             st1 == set_element(st, r, n.row, n.col, value - n.value)
         IN SubtractLoop(st1, r, st1.nodes[current].next)

subtract(st, self, other) ==
    IF AddMismatch(st.mats[self], st.mats[other]) THEN Raised(st)
    ELSE
      LET r == Len(st.mats) + 1
          st0 == NewMatrix(st, st.mats[self].num_rows, st.mats[self].num_cols)
          st1 == CopyLoop(st0, r, st0.mats[self].head)
          st2 == SubtractLoop(st1, r, st1.mats[other].head)
      IN Returned(st2, r)

\* ---- multiply ----

\* The dimension test of multiply.
MultiplyMismatch(a, b) ==
    a.num_cols # b.num_rows

\* Inner loop: every entry of other against one entry of self.
RECURSIVE InnerLoop(_, _, _, _)
InnerLoop(st, r, current_self, current_other) ==
    IF current_other = None THEN st
    ELSE LET a == st.nodes[current_self]
             b == st.nodes[current_other]
             existing_value == get_element(st, r, a.row, b.col)
             st1 == IF a.col = b.row
                    THEN set_element(st, r, a.row, b.col,
                                     existing_value + a.value * b.value)
                    ELSE st
         IN InnerLoop(st1, r, current_self, st1.nodes[current_other].next)

\* Outer loop: every entry of self.
RECURSIVE OuterLoop(_, _, _, _)
OuterLoop(st, r, other, current_self) ==
    IF current_self = None THEN st
    ELSE LET st1 == InnerLoop(st, r, current_self, st.mats[other].head)
         IN OuterLoop(st1, r, other, st1.nodes[current_self].next)

multiply(st, self, other) ==
    IF MultiplyMismatch(st.mats[self], st.mats[other]) THEN Raised(st)
    ELSE
      LET r == Len(st.mats) + 1
          st0 == NewMatrix(st, st.mats[self].num_rows, st.mats[other].num_cols)
          st1 == OuterLoop(st0, r, other, st0.mats[self].head)
      IN Returned(st1, r)

\* ---- load_matrix ----

\* A line of a matrix file after the two header lines.  "entry" is a line
\* "(row,col,value)"; "skip" is a line that is not parenthesised (reported and
\* skipped); "bad" is a parenthesised line whose fields are not three
\* integers: int() raises ValueError, which ends the load.
EntryLine(row, col, value) ==
    [kind |-> "entry", row |-> row, col |-> col, value |-> value]
SkipLine == [kind |-> "skip", row |-> 0, col |-> 0, value |-> 0]
BadLine == [kind |-> "bad", row |-> 0, col |-> 0, value |-> 0]

RECURSIVE LoadLines(_, _, _, _)
LoadLines(st, self, lines, i) ==
    IF i > Len(lines) THEN st
    ELSE IF lines[i].kind = "entry"
         THEN LoadLines(set_element(st, self, lines[i].row, lines[i].col,
                                    lines[i].value), self, lines, i + 1)
         ELSE IF lines[i].kind = "skip"
              THEN LoadLines(st, self, lines, i + 1)
              ELSE st

\* load_matrix on a readable file with well-formed Rows= and Cols= lines.
load_matrix(st, self, f) ==
    LET ms == [st.mats EXCEPT ![self].num_rows = f.rows,
                              ![self].num_cols = f.cols]
    IN LoadLines(Store(st.nodes, ms), self, f.lines, 1)

\* ---- save_to_file ----

RECURSIVE SaveLoop(_, _)
SaveLoop(ns, current) ==
    IF current = None THEN <<>>
    ELSE <<<<ns[current].row, ns[current].col, ns[current].value>>>>
         \o SaveLoop(ns, ns[current].next)

NoFile == [written |-> FALSE, rows |-> 0, cols |-> 0, lines |-> <<>>]

save_to_file(st, self) ==
    [written |-> TRUE,
     rows |-> st.mats[self].num_rows,
     cols |-> st.mats[self].num_cols,
     lines |-> SaveLoop(st.nodes, st.mats[self].head)]

\* ---- the state machine ----

Cur == Store(nodes, mats)

NoOp == [name |-> "none", self |-> None, other |-> None]

Init ==
    /\ nodes = <<>>
    /\ \E r1 \in Dims, c1 \in Dims, r2 \in Dims, c2 \in Dims :
           mats = <<SparseMatrix(r1, c1), SparseMatrix(r2, c2)>>
    /\ result = None
    /\ op = NoOp
    /\ raised = FALSE
    /\ file = NoFile
    /\ pc = "build"

Stored(m) == Len(Chain(nodes, mats[m].head))

\* matrix1 is populated before matrix2, as main() does.
InOrder(m) == m = 1 => mats[2].head = None

\* What the exploration passes to set_element: an operand with room left,
\* and coordinates inside the matrix (0 <= row < num_rows, 0 <= col <
\* num_cols); set_element itself checks neither.
CanSet(m) == InOrder(m) /\ Stored(m) < MaxEntries
Rows(m) == 0..(mats[m].num_rows - 1)
Cols(m) == 0..(mats[m].num_cols - 1)

SetElement(m, row, col, value) ==
    /\ pc = "build"
    /\ LET st == set_element(Cur, m, row, col, value)
       IN /\ nodes' = st.nodes
          /\ mats' = st.mats
    /\ UNCHANGED <<result, op, raised, file, pc>>

FileLines(rows, cols) ==
    {EntryLine(r, c, v) : r \in 0..(rows - 1), c \in 0..(cols - 1), v \in Values}
        \cup {SkipLine, BadLine}

\* A readable file: its Rows= and Cols= values and its k further lines.
File(rows, cols, lines) == [rows |-> rows, cols |-> cols, lines |-> lines]

\* load_matrix is called on a matrix just constructed (lines 35-39, 224-233).
LoadMatrix(m) ==
    /\ pc = "build"
    /\ InOrder(m)
    /\ mats[m].head = None
    /\ \E r \in Dims, c \in Dims, k \in 0..MaxEntries :
           \E l \in [1..k -> FileLines(r, c)] :
               LET st == load_matrix(Cur, m, File(r, c, l))
               IN /\ nodes' = st.nodes
                  /\ mats' = st.mats
    /\ UNCHANGED <<result, op, raised, file, pc>>

Call(name, self, other, out) ==
    /\ pc = "build"
    /\ nodes' = out.st.nodes
    /\ mats' = out.st.mats
    /\ result' = out.result
    /\ raised' = out.raised
    /\ op' = [name |-> name, self |-> self, other |-> other]
    /\ pc' = "computed"
    /\ UNCHANGED file

Add(self, other) == Call("add", self, other, add(Cur, self, other))

Subtract(self, other) == Call("subtract", self, other, subtract(Cur, self, other))

Multiply(self, other) == Call("multiply", self, other, multiply(Cur, self, other))

SaveToFile(m) ==
    /\ \/ pc = "build" /\ m \in Operands
       \/ pc = "computed" /\ m # None /\ m = result
    /\ file' = save_to_file(Cur, m)
    /\ pc' = "saved"
    /\ UNCHANGED <<nodes, mats, result, op, raised>>

Next ==
    \/ \E m \in Operands :
           /\ CanSet(m)
           /\ \E row \in Rows(m), col \in Cols(m), value \in Values :
                  SetElement(m, row, col, value)
    \/ \E m \in Operands : LoadMatrix(m)
    \/ \E self \in Operands, other \in Operands : Add(self, other)
    \/ \E self \in Operands, other \in Operands : Subtract(self, other)
    \/ \E self \in Operands, other \in Operands : Multiply(self, other)
    \/ \E m \in 1..Len(mats) : SaveToFile(m)

Spec == Init /\ [][Next]_vars

\* The population and saving of matrix1 alone (main() up to line 231, and
\* save_to_file on what was loaded); matrix2 stays as SparseMatrix()
\* constructs it (line 225: no rows, no columns, no entries).
InitMatrix1 ==
    /\ nodes = <<>>
    /\ \E r1 \in Dims, c1 \in Dims :
           mats = <<SparseMatrix(r1, c1), SparseMatrix(0, 0)>>
    /\ result = None
    /\ op = NoOp
    /\ raised = FALSE
    /\ file = NoFile
    /\ pc = "build"

NextMatrix1 ==
    \/ /\ CanSet(1)
       /\ \E row \in Rows(1), col \in Cols(1), value \in Values :
              SetElement(1, row, col, value)
    \/ LoadMatrix(1)
    \/ SaveToFile(1)

SpecMatrix1 == InitMatrix1 /\ [][NextMatrix1]_vars

\* ---- vocabulary of the properties ----

\* The (row, col, value) triples of matrix m, head to tail.
Entries(st, m) == SaveLoop(st.nodes, st.mats[m].head)

\* The Node references of matrix m, head to tail.
NodesOf(st, m) == {Chain(st.nodes, st.mats[m].head)[i] :
                      i \in 1..Len(Chain(st.nodes, st.mats[m].head))}

LexLess(a, b) == a[1] < b[1] \/ (a[1] = b[1] /\ a[2] < b[2])

StrictlyIncreasing(es) == \A i \in 1..(Len(es) - 1) : LexLess(es[i], es[i + 1])

Ascending(es) == \A i \in 1..(Len(es) - 1) : ~LexLess(es[i + 1], es[i])

\* Sorted, duplicate-free and non-zero.
WellFormed(st, m) ==
    /\ StrictlyIncreasing(Entries(st, m))
    /\ \A i \in 1..Len(Entries(st, m)) : Entries(st, m)[i][3] # 0

Cells == (0..(MaxDim - 1)) \X (0..(MaxDim - 1))

CallReturned(name) == op.name = name /\ ~raised

\* C1: after any sequence of set_element calls on an empty matrix the stored
\* entries are strictly increasing in (row, col): no coordinate is stored twice.
C1_StrictlyIncreasing ==
    \A m \in Operands : StrictlyIncreasing(Entries(Cur, m))

\* C2: right after set_element(r, c, v) with v # 0, get_element(r, c) is v,
\* also when (r, c) was already stored.  (Only a step that leaves pc alone
\* and allocates one Node can be such a call: line 85.)
C2_SetThenGet ==
    [][(pc' = pc /\ Len(nodes') = Len(nodes) + 1) =>
          \A m \in Operands, row \in 0..(MaxDim - 1), col \in 0..(MaxDim - 1),
             value \in Values \ {0} :
             SetElement(m, row, col, value)
                 => get_element(Store(nodes', mats'), m, row, col) = value]_vars

\* A coordinate of an operand was set twice, to two different values.
C2_Witness ==
    \E m \in Operands :
        LET es == Entries(Cur, m)
        IN /\ Len(es) = 2
           /\ es[1][1] = es[2][1] /\ es[1][2] = es[2][2]
           /\ es[1][3] # es[2][3]
           /\ get_element(Cur, m, es[1][1], es[1][2]) = es[1][3]
           /\ nodes[mats[m].head].next < mats[m].head

\* C3: for well-formed A and B of equal dimensions, A.add(B) reads back
\* A[r][c] + B[r][c] at every cell, cancelling cells included.
C3_AddCellwise ==
    (CallReturned("add") /\ WellFormed(Cur, op.self) /\ WellFormed(Cur, op.other))
        => \A rc \in Cells :
               get_element(Cur, result, rc[1], rc[2])
                   = get_element(Cur, op.self, rc[1], rc[2])
                     + get_element(Cur, op.other, rc[1], rc[2])

\* C4: for well-formed A, A.subtract(A) stores no entry.
C4_SubtractSelfEmpty ==
    (CallReturned("subtract") /\ op.self = op.other /\ WellFormed(Cur, op.self))
        => mats[result].head = None

\* C5: for well-formed A and B of equal dimensions, A.add(B) and B.add(A)
\* enumerate to the same entries.
C5_AddCommutes ==
    (CallReturned("add") /\ WellFormed(Cur, op.self) /\ WellFormed(Cur, op.other))
        => LET swapped == add(Cur, op.other, op.self)
           IN Entries(Cur, result) = Entries(swapped.st, swapped.result)

\* sum over k < n of A[r][k] * B[k][c]
RECURSIVE Dot(_, _, _, _, _)
Dot(a, b, r, c, n) ==
    IF n = 0 THEN 0
    ELSE Dot(a, b, r, c, n - 1)
         + get_element(Cur, a, r, n - 1) * get_element(Cur, b, n - 1, c)

\* C6: for well-formed A (m x n) and B (n x p), A.multiply(B) is m x p and
\* stores exactly one entry (r, c, s) per cell whose sum of products s is
\* non-zero, and nothing else.
C6_MultiplyExact ==
    (CallReturned("multiply") /\ WellFormed(Cur, op.self) /\ WellFormed(Cur, op.other))
        => LET es == Entries(Cur, result)
           IN /\ mats[result].num_rows = mats[op.self].num_rows
              /\ mats[result].num_cols = mats[op.other].num_cols
              /\ StrictlyIncreasing(es)
              /\ \A i \in 1..Len(es) :
                     /\ es[i][3] # 0
                     /\ es[i][3] = Dot(op.self, op.other, es[i][1], es[i][2], MaxDim)
              /\ \A rc \in Cells :
                     Dot(op.self, op.other, rc[1], rc[2], MaxDim) # 0
                         => \E i \in 1..Len(es) : es[i][1] = rc[1] /\ es[i][2] = rc[2]

\* The error outcome each call must have.
Mismatch(name, a, b) ==
    IF name = "multiply" THEN a.num_cols # b.num_rows
    ELSE a.num_rows # b.num_rows \/ a.num_cols # b.num_cols

\* A step that makes an arithmetic call.
CallStep == pc = "build" /\ pc' = "computed"

\* C7: add and subtract raise exactly when the row or column counts differ,
\* multiply exactly when self.num_cols # other.num_rows; a call that raises
\* has created no matrix and no node and returns nothing.
C7_FailFast ==
    [][CallStep =>
          /\ raised' <=> Mismatch(op'.name, mats[op'.self], mats[op'.other])
          /\ raised' => (mats' = mats /\ nodes' = nodes /\ result' = None)
          /\ ~raised' => (result' = Len(mats) + 1 /\ Len(mats') = Len(mats) + 1)]_vars

\* add raised because only the column counts differ, with entries stored.
C7_Witness ==
    /\ op.name = "add" /\ raised /\ result = None
    /\ mats[op.self].num_rows = mats[op.other].num_rows
    /\ mats[op.self].num_cols # mats[op.other].num_cols
    /\ mats[op.self].head # None /\ mats[op.other].head # None

\* C8: an arithmetic call, aliased or not, raising or not, leaves both
\* operands as they were (dimensions, entries, the nodes themselves), and a
\* returned matrix is a new object that shares no node with an operand.
C8_OperandsUntouched ==
    [][CallStep =>
          /\ \A m \in Operands :
                 /\ mats'[m] = mats[m]
                 /\ Entries(Store(nodes', mats'), m) = Entries(Cur, m)
                 /\ NodesOf(Store(nodes', mats'), m) = NodesOf(Cur, m)
          /\ \A n \in 1..Len(nodes) : nodes'[n] = nodes[n]
          /\ ~raised' =>
                 /\ result' \notin Operands
                 /\ \A m \in Operands :
                        NodesOf(Store(nodes', mats'), result')
                            \cap NodesOf(Store(nodes', mats'), m) = {}]_vars

\* An aliased call returned a matrix that stores entries.
C8_Witness ==
    /\ op.name \in {"add", "subtract", "multiply"}
    /\ op.self = op.other /\ ~raised
    /\ mats[result].head # None
    /\ Len(Entries(Cur, op.self)) = MaxEntries

\* C9: for any A built by set_element calls and an empty Z of the same
\* dimensions, A.add(Z) enumerates to exactly the entries of A.
C9_AddZeroIdentity ==
    (CallReturned("add") /\ mats[op.other].head = None)
        => Entries(Cur, result) = Entries(Cur, op.self)

\* C10: whatever the order of the entries loaded through set_element, the
\* entries save_to_file writes are in ascending (row, col) order.
C10_SavedAscending ==
    (pc = "saved" /\ op = NoOp) => Ascending(file.lines)

\* The saved matrix was populated in descending order of (row, col).
C10_Witness ==
    /\ pc = "saved" /\ op = NoOp
    /\ \E m \in Operands :
           /\ file = save_to_file(Cur, m)
           /\ Len(file.lines) = 2
           /\ LexLess(file.lines[1], file.lines[2])
           /\ nodes[mats[m].head].next # None
           /\ nodes[mats[m].head].next < mats[m].head

====
